---- MODULE Spec2Model ----
(***************************************************************************)
(* Model of the session manager of gogames/session (src/session.go, the    *)
(* revision with the LRU index, lines 1-297) together with its LRU index   *)
(* (src/lru.go, lines 1-100) and a per-session store behaving like the     *)
(* file store of that revision (src/unnamed/part_005).                     *)
(*                                                                         *)
(* Caller goroutines invoke Set/Get/Delete/Update/Expire/Flush, one        *)
(* goroutine invokes Close, and one background goroutine runs gc.  Each    *)
(* action is one step of a goroutine between two points at which another   *)
(* goroutine can observe or change shared state.                           *)
(***************************************************************************)
EXTENDS Integers, Sequences, FiniteSets, TLC

\* ---------------------------------------------------------------- bounds
MaxTime == 2
MaxCalls == 2
InitNow == 1
MaxLongTime == 4

\* ------------------------------------------------------- program values
sessionLifeTime == 1

Callers == {"t1", "t2"}
Solo == {"t1"}
Ids == {"a", "b"}
EMPTY_STRING == ""
Keys == {"k1", "k2"}
Vals == {"v1"}
Absent == "absent"
NoErr == "nil"
IOErr == "ioerr"
Errs == {NoErr, IOErr}
NoWriter == "none"
NoOp == "none"

VARIABLES
    sessions,     \* Session.sessions: live id -> store handle
    lru,          \* Session.lru: sequence of elements, front first
    isClosed,     \* Session.isClosed
    closeChan,    \* len(Session.closeChan), the in-flight counter
    writer,       \* holder of Session.rwl in write mode
    data,         \* store contents: id of an existing store -> key -> value
    now,          \* the clock
    th,           \* caller goroutines: position, arguments, results
    gcs,          \* the gc goroutine: position, tick time, expired ids
    cl,           \* the goroutine calling Close
    calls,        \* number of caller operations issued so far
    crashed,      \* a goroutine panicked: the process is gone
    boot          \* the registry of stores and the progress of NewSession

vars == <<sessions, lru, isClosed, closeChan, writer, data, now,
          th, gcs, cl, calls, crashed, boot>>

\* ------------------------------------------------------------ LRU index
\* type element struct { key, val }
element(k, v) == [key |-> k, val |-> v]

lruKeys(l) == {l[i].key : i \in 1..Len(l)}

lruVal(l, k) == l[CHOOSE i \in 1..Len(l) : l[i].key = k].val

\* lru.length
length(l) == Len(l)

\* list.Remove of the element cached under k
listRemove(l, k) == SelectSeq(l, LAMBDA e : e.key # k)

\* a put that leaves an existing key as it is
putKeepOld(l, k, v) ==
    IF k \in lruKeys(l) THEN l ELSE Append(l, element(k, v))

\* newLRU: an empty list and an empty cache.  An index x is the record of
\* its list x.l and of the keys of its cache x.cache; the element cached
\* under k is the element of the list that carries k
newLRU == [l |-> <<>>, cache |-> {}]

\* the index whose list is l and whose cache holds the keys of l
indexOf(l) == [l |-> l, cache |-> lruKeys(l)]

\* a put that overwrites the value of a cached key where it stands
lruPutInPlace(x, k, v) ==
    IF k \in x.cache
    THEN [x EXCEPT !.l = [i \in 1..Len(x.l) |->
                            IF x.l[i].key = k THEN element(k, v) ELSE x.l[i]]]
    ELSE [l |-> Append(x.l, element(k, v)), cache |-> x.cache \cup {k}]

\* lru.put on an index: a cached key gets the new element and moves to
\* the back, a key that is not cached is pushed to the back and cached
lruPut(x, k, v) ==
    IF k \in x.cache
    THEN [x EXCEPT !.l = Append(listRemove(x.l, k), element(k, v))]
    ELSE [l |-> Append(x.l, element(k, v)), cache |-> x.cache \cup {k}]

\* lru.remove(ks...) on an index: every given key that is cached leaves
\* the list and the cache, the others are skipped
RECURSIVE lruRemove(_, _)
\* a remove that takes the elements out of the list and leaves the cache
lruRemoveKeepCache(x, ks) ==
    [x EXCEPT !.l = SelectSeq(x.l, LAMBDA e :
                        \A i \in 1..Len(ks) : ks[i] # e.key)]

lruRemove(x, ks) ==
    IF ks = <<>> THEN x
    ELSE lruRemove(IF Head(ks) \in x.cache
                   THEN [l |-> listRemove(x.l, Head(ks)),
                         cache |-> x.cache \ {Head(ks)}]
                   ELSE x,
                   Tail(ks))

\* lru.put as the manager sees it, on the list of its index
put(l, k, v) == lruPut(indexOf(l), k, v).l

\* lru.remove(ks...) as the manager sees it, on the list of its index
remove(l, ks) == lruRemove(indexOf(l), ks).l

\* a scan that stops at the first element that is not expired
findExpiredItemsStop(l, isExpired) ==
    LET F[i \in 0..Len(l)] ==
            IF i = 0 THEN <<>>
            ELSE IF Len(F[i - 1]) = i - 1 /\ isExpired[l[i].val]
                 THEN F[i - 1] \o <<l[i].key>>
                 ELSE F[i - 1]
    IN  F[Len(l)]

\* lru.findExpiredItems: front to back, every element is evaluated; the
\* predicate is a function from the elements' values to BOOLEAN
findExpiredItems(l, isExpired) ==
    LET F[i \in 0..Len(l)] ==
            IF i = 0 THEN <<>>
            ELSE F[i - 1] \o (IF isExpired[l[i].val] THEN <<l[i].key>> ELSE <<>>)
    IN  F[Len(l)]

\* ------------------------------------------------- store (file store)
\* newFileStore(sid, conf): the handle is bound to sid; its directory is
\* created when missing
newHandle(sid) == [sid |-> sid]

NoData == [k \in Keys |-> Absent]

\* what a session directory found at start holds: a value of k1 written
\* before the start
RecoveredData == [k \in Keys |-> IF k = "k1" THEN "v0" ELSE Absent]

mkdir(d, sid) == IF sid \in DOMAIN d THEN d ELSE d @@ (sid :> NoData)

\* a Set that writes the value under every key of the session
storeSetAll(d, sid, key, val) == [d EXCEPT ![sid] = [k \in Keys |-> val]]

\* file.Set: WriteFile of the key's file
storeSet(d, sid, key, val) == [d EXCEPT ![sid][key] = val]

\* file.Get: the file's content, nil when it cannot be read
storeGet(d, sid, key) == IF sid \in DOMAIN d THEN d[sid][key] ELSE Absent

\* file.Delete: os.Remove of the key's file
storeDelete(d, sid, key) == [d EXCEPT ![sid][key] = Absent]

\* file.Expire: os.RemoveAll of the session directory
storeExpire(d, sid) == [x \in DOMAIN d \ {sid} |-> d[x]]

\* a delete that leaves the map as it is
mapKeep(m, sid) == m

\* delete(s.sessions, sid)
mapDelete(m, sid) == [x \in DOMAIN m \ {sid} |-> m[x]]

\* ------------------------------------------------------------ manager
Idle == [pc |-> "idle", op |-> NoOp, arg |-> EMPTY_STRING, key |-> "k1",
         val |-> "v1", sid |-> EMPTY_STRING, err |-> NoErr, ret |-> Absent,
         cont |-> FALSE]

\* a closed() that always answers "open"
closedNever == FALSE

\* Session.closed: isClosed read under the read lock
closed == isClosed

\* a write lock that excludes nobody
canLockAlways == TRUE

\* the read lock and the write lock can be taken
canRLock == writer = NoWriter
canLock == writer = NoWriter

running == ~crashed

\* Session.newSId: random ids until one is not a key of s.sessions
newSIds == {sid \in Ids : sid # EMPTY_STRING /\ sid \notin DOMAIN sessions}

\* Callers are interchangeable goroutines: the one named t1 is the one that
\* issues the first operation of a behaviour.
mayCall(t) ==
    /\ calls < MaxCalls
    /\ calls = 0 => t = "t1"

\* ---- Session.do, lines 260-267 ------------------------------------------
\* A caller enters an operation.  Delete, Update and Expire return at once
\* on the empty id; otherwise do() reads the closed flag and returns when
\* it is set, leaving the named results at their zero values.
call(t, op, arg, key, val) ==
    /\ running
    /\ th[t].pc = "idle"
    /\ mayCall(t)
    /\ calls' = calls + 1
    /\ LET c == [pc |-> "admit", op |-> op, arg |-> arg, key |-> key,
                 val |-> val, sid |-> EMPTY_STRING, err |-> NoErr,
                 ret |-> Absent, cont |-> FALSE]
       IN  IF op \in {"Delete", "Update", "Expire"} /\ arg = EMPTY_STRING
           THEN th' = [th EXCEPT ![t] = [c EXCEPT !.pc = "idle"]]
           ELSE /\ canRLock
                /\ th' = [th EXCEPT ![t] =
                            IF closed THEN [c EXCEPT !.pc = "idle"] ELSE c]
    /\ UNCHANGED <<boot, sessions, lru, isClosed, closeChan, writer, data, now, gcs, cl, crashed>>

SetCall(t) ==
    \E sid \in Ids \cup {EMPTY_STRING}, key \in Keys, val \in Vals :
        call(t, "Set", sid, key, val)

\* Set("", key, val)
MintCall(t) ==
    \E key \in Keys, val \in Vals : call(t, "Set", EMPTY_STRING, key, val)

DeleteCall(t) ==
    \E sid \in Ids \cup {EMPTY_STRING}, key \in Keys :
        call(t, "Delete", sid, key, "v1")

UpdateCall(t) ==
    \E sid \in Ids \cup {EMPTY_STRING} : call(t, "Update", sid, "k1", "v1")

ExpireCall(t) ==
    \E sid \in Ids \cup {EMPTY_STRING} : call(t, "Expire", sid, "k1", "v1")

FlushCall(t) == call(t, "Flush", EMPTY_STRING, "k1", "v1")

\* the body that follows admission
firstPc(c) ==
    CASE c.op = "Set" -> IF c.arg # EMPTY_STRING THEN "read" ELSE "mint"
      [] c.op = "Delete" -> "delete"
      [] c.op = "Update" -> "update"
      [] c.op = "Expire" -> "expire"
      [] c.op = "Flush" -> "flush"

\* s.closeChan <- struct{}{}
doAdmit(t) ==
    /\ running
    /\ th[t].pc = "admit"
    /\ closeChan' = closeChan + 1
    /\ th' = [th EXCEPT ![t].pc = firstPc(th[t])]
    /\ UNCHANGED <<boot, sessions, lru, isClosed, writer, data, now, gcs,
                   cl, calls, crashed>>

\* an exit from do() that leaves its slot of closeChan filled
doReleaseKeep(t) ==
    /\ running
    /\ th[t].pc = "release"
    /\ closeChan' = closeChan
    /\ th' = [th EXCEPT ![t].pc = "idle"]
    /\ UNCHANGED <<boot, sessions, lru, isClosed, writer, data, now, gcs,
                   cl, calls, crashed>>

\* defer func() { <-s.closeChan }()
doRelease(t) ==
    /\ running
    /\ th[t].pc = "release"
    /\ closeChan' = closeChan - 1
    /\ th' = [th EXCEPT ![t].pc = "idle"]
    /\ UNCHANGED <<boot, sessions, lru, isClosed, writer, data, now, gcs,
                   cl, calls, crashed>>

\* ---- Session.Get, lines 129-139 -----------------------------------------
Get(t) ==
    /\ running
    /\ th[t].pc = "idle"
    /\ mayCall(t)
    /\ calls' = calls + 1
    /\ \E sid \in Ids \cup {EMPTY_STRING}, key \in Keys :
         /\ sid # EMPTY_STRING => canRLock
         /\ th' = [th EXCEPT ![t] =
                [pc |-> "idle", op |-> "Get", arg |-> sid, key |-> key,
                 val |-> "v1", sid |-> EMPTY_STRING, err |-> NoErr,
                 ret |-> IF sid # EMPTY_STRING /\ sid \in DOMAIN sessions
                         THEN storeGet(data, sessions[sid].sid, key)
                         ELSE Absent,
                 cont |-> FALSE]]
    /\ UNCHANGED <<boot, sessions, lru, isClosed, closeChan, writer, data, now, gcs, cl, crashed>>

\* ---- Session.Set, lines 145-168 -----------------------------------------
\* lines 148-156: under the read lock, Set on the handle of a live id
SetRead(t) ==
    /\ running
    /\ th[t].pc = "read"
    /\ canRLock
    /\ LET sid == th[t].arg IN
       IF sid \in DOMAIN sessions
       THEN \E err \in Errs :
              /\ data' = IF err = NoErr
                         THEN storeSet(data, sessions[sid].sid, th[t].key, th[t].val)
                         ELSE data
              /\ th' = [th EXCEPT ![t].pc = "put", ![t].sid = sid,
                                   ![t].err = err, ![t].cont = TRUE]
       ELSE /\ data' = data
            /\ th' = [th EXCEPT ![t].pc = "mint"]
    /\ UNCHANGED <<boot, sessions, lru, isClosed, closeChan, writer, now,
                   gcs, cl, calls, crashed>>

\* lines 157-159: s.rwl.Lock(); sid = s.newSId()
SetMintLock(t) ==
    /\ running
    /\ th[t].pc = "mint"
    /\ canLock
    /\ writer' = t
    /\ \E sid \in newSIds :
         th' = [th EXCEPT ![t].pc = "insert", ![t].sid = sid]
    /\ UNCHANGED <<boot, sessions, lru, isClosed, closeChan, data, now, gcs, cl,
                   calls, crashed>>

\* the two outcomes of rand.Read on the id buffer: the buffer is filled and
\* err is nil, or the read stops short with an error
randReads == {"full", "short"}

\* Session.randSId: "" after a short read, else the hex of the buffer
randSId(r, sid) == IF r = "short" THEN EMPTY_STRING ELSE sid

\* line 158 and newSId when randSId returns "": the write lock is held and
\* the for loop of newSId goes round again
newSIdFail(t) ==
    /\ running
    /\ th[t].pc = "mint"
    /\ canLock
    /\ writer' = t
    /\ \E sid \in Ids :
         /\ randSId("short", sid) = EMPTY_STRING
         /\ th' = [th EXCEPT ![t].pc = "retry"]
    /\ UNCHANGED <<boot, sessions, lru, isClosed, closeChan, data, now, gcs, cl,
                   calls, crashed>>

\* a later round of the loop of newSId in which randSId returns an id
\* that is not a key of s.sessions
newSIdRetry(t) ==
    /\ running
    /\ th[t].pc = "retry"
    /\ writer = t
    /\ \E sid \in newSIds :
         /\ randSId("full", sid) # EMPTY_STRING
         /\ th' = [th EXCEPT ![t].pc = "insert", ![t].sid = randSId("full", sid)]
    /\ UNCHANGED <<boot, sessions, lru, isClosed, closeChan, writer, data, now,
                   gcs, cl, calls, crashed>>

\* s.sessions[sid] = ...
mapStore(m, sid, h) ==
    [x \in DOMAIN m \cup {sid} |-> IF x = sid THEN h ELSE m[x]]

\* a mint that does not keep the session when the handle's Set fails
SetMintInsertRollback(t) ==
    /\ running
    /\ th[t].pc = "insert"
    /\ LET sid == th[t].sid IN
       \E err \in Errs :
         /\ sessions' = IF err = NoErr
                        THEN mapStore(sessions, sid, newHandle(sid))
                        ELSE sessions
         /\ data' = IF err = NoErr
                    THEN storeSet(mkdir(data, sid), newHandle(sid).sid,
                                  th[t].key, th[t].val)
                    ELSE data
         /\ th' = [th EXCEPT ![t].pc = "put", ![t].err = err]
    /\ writer' = NoWriter
    /\ UNCHANGED <<boot, lru, isClosed, closeChan, now, gcs, cl, calls, crashed>>

\* lines 160-162: the handle is created and stored, Set is called on it,
\* s.rwl.Unlock()
SetMintInsert(t) ==
    /\ running
    /\ th[t].pc = "insert"
    /\ LET sid == th[t].sid IN
       \E err \in Errs :
         /\ sessions' = mapStore(sessions, sid, newHandle(sid))
         /\ data' = IF err = NoErr
                    THEN storeSet(mkdir(data, sid), newHandle(sid).sid,
                                  th[t].key, th[t].val)
                    ELSE mkdir(data, sid)
         /\ th' = [th EXCEPT ![t].pc = "put", ![t].err = err]
    /\ writer' = NoWriter
    /\ UNCHANGED <<boot, lru, isClosed, closeChan, now, gcs, cl, calls, crashed>>

\* lines 164-165: sessionId = sid; s.lru.put(sessionId, time.Now())
SetPut(t) ==
    /\ running
    /\ th[t].pc = "put"
    /\ lru' = put(lru, th[t].sid, now)
    /\ th' = [th EXCEPT ![t].pc = "release"]
    /\ UNCHANGED <<boot, sessions, isClosed, closeChan, writer, data, now,
                   gcs, cl, calls, crashed>>

\* ---- Session.Delete, lines 173-185 --------------------------------------
Delete(t) ==
    /\ running
    /\ th[t].pc = "delete"
    /\ canRLock
    /\ LET sid == th[t].arg IN
       IF sid \in DOMAIN sessions
       THEN \E err \in Errs :
              /\ storeGet(data, sessions[sid].sid, th[t].key) = Absent
                    => err = IOErr
              /\ data' = IF err = NoErr
                         THEN storeDelete(data, sessions[sid].sid, th[t].key)
                         ELSE data
              /\ th' = [th EXCEPT ![t].pc = "release", ![t].err = err]
       ELSE /\ data' = data
            /\ th' = [th EXCEPT ![t].pc = "release"]
    /\ UNCHANGED <<boot, sessions, lru, isClosed, closeChan, writer, now,
                   gcs, cl, calls, crashed>>

\* ---- Session.Update, lines 190-203 --------------------------------------
Update(t) ==
    /\ running
    /\ th[t].pc = "update"
    /\ canRLock
    /\ LET sid == th[t].arg IN
       IF sid \in DOMAIN sessions
       THEN \E err \in Errs :
              th' = [th EXCEPT ![t].pc = "release", ![t].err = err]
       ELSE th' = [th EXCEPT ![t].pc = "release"]
    /\ UNCHANGED <<boot, sessions, lru, isClosed, closeChan, writer, data, now,
                   gcs, cl, calls, crashed>>

\* an Expire that, like Flush, keeps the session when the handle fails
ExpireKeepOnError(t) ==
    /\ running
    /\ th[t].pc = "expire"
    /\ canLock
    /\ LET sid == th[t].arg IN
       IF sid \in DOMAIN sessions
       THEN \E err \in Errs :
              /\ data' = IF err = NoErr
                         THEN storeExpire(data, sessions[sid].sid) ELSE data
              /\ th' = [th EXCEPT ![t].pc = "release", ![t].err = err]
              /\ sessions' = IF err = NoErr THEN mapDelete(sessions, sid)
                             ELSE sessions
              /\ lru' = IF err = NoErr THEN remove(lru, <<sid>>) ELSE lru
       ELSE /\ th' = [th EXCEPT ![t].pc = "release"]
            /\ UNCHANGED <<data, sessions, lru>>
    /\ UNCHANGED <<boot, isClosed, closeChan, writer, now, gcs, cl, calls, crashed>>

\* ---- Session.Expire, lines 208-222 --------------------------------------
Expire(t) ==
    /\ running
    /\ th[t].pc = "expire"
    /\ canLock
    /\ LET sid == th[t].arg IN
       /\ IF sid \in DOMAIN sessions
          THEN \E err \in Errs :
                 /\ data' = IF err = NoErr
                            THEN storeExpire(data, sessions[sid].sid) ELSE data
                 /\ th' = [th EXCEPT ![t].pc = "release", ![t].err = err]
          ELSE /\ data' = data
               /\ th' = [th EXCEPT ![t].pc = "release"]
       /\ sessions' = mapDelete(sessions, sid)
       /\ lru' = remove(lru, <<sid>>)
    /\ UNCHANGED <<boot, isClosed, closeChan, writer, now, gcs, cl, calls, crashed>>

\* ---- Session.Flush, lines 111-124 ---------------------------------------
\* s.rwl.Lock()
FlushLock(t) ==
    /\ running
    /\ th[t].pc = "flush"
    /\ canLock
    /\ writer' = t
    /\ th' = [th EXCEPT ![t].pc = "flushing"]
    /\ UNCHANGED <<boot, sessions, lru, isClosed, closeChan, data, now,
                   gcs, cl, calls, crashed>>

\* a Flush that goes on to the next session when a handle fails
FlushExpireNoStop(t) ==
    /\ running
    /\ th[t].pc = "flushing"
    /\ \E sid \in DOMAIN sessions, err \in Errs :
         /\ data' = IF err = NoErr
                    THEN storeExpire(data, sessions[sid].sid) ELSE data
         /\ sessions' = mapDelete(sessions, sid)
         /\ lru' = remove(lru, <<sid>>)
         /\ th' = [th EXCEPT ![t].err = err]
         /\ writer' = writer
    /\ UNCHANGED <<boot, isClosed, closeChan, now, gcs, cl, calls, crashed>>

\* one iteration of the range over s.sessions
FlushExpire(t) ==
    /\ running
    /\ th[t].pc = "flushing"
    /\ \E sid \in DOMAIN sessions, err \in Errs :
         IF err # NoErr
         THEN /\ th' = [th EXCEPT ![t].pc = "release", ![t].err = err]
              /\ writer' = NoWriter
              /\ UNCHANGED <<sessions, lru, data>>
         ELSE /\ data' = storeExpire(data, sessions[sid].sid)
              /\ sessions' = mapDelete(sessions, sid)
              /\ lru' = remove(lru, <<sid>>)
              /\ th' = [th EXCEPT ![t].err = err]
              /\ writer' = writer
    /\ UNCHANGED <<boot, isClosed, closeChan, now, gcs, cl, calls, crashed>>

\* the range is exhausted: s.rwl.Unlock()
FlushUnlock(t) ==
    /\ running
    /\ th[t].pc = "flushing"
    /\ DOMAIN sessions = {}
    /\ writer' = NoWriter
    /\ th' = [th EXCEPT ![t].pc = "release"]
    /\ UNCHANGED <<boot, sessions, lru, isClosed, closeChan, data, now,
                   gcs, cl, calls, crashed>>

\* a predicate that also takes a session whose age equals the lifetime
isExpiredAtOrEqual(t, value) == t - value >= sessionLifeTime

\* ---- Session.gc, lines 224-246 ------------------------------------------
\* the sweep's predicate, line 231
isExpiredAt(t, value) == t - value > sessionLifeTime

\* a tick is received and do() reads the closed flag
gcTick ==
    /\ running
    /\ gcs.pc = "select"
    /\ canRLock
    /\ gcs' = IF closed THEN gcs ELSE [gcs EXCEPT !.pc = "admit", !.t = now]
    /\ UNCHANGED <<boot, sessions, lru, isClosed, closeChan, writer, data, now, th, cl, calls, crashed>>

gcAdmit ==
    /\ running
    /\ gcs.pc = "admit"
    /\ closeChan' = closeChan + 1
    /\ gcs' = [gcs EXCEPT !.pc = "find"]
    /\ UNCHANGED <<boot, sessions, lru, isClosed, writer, data, now, th,
                   cl, calls, crashed>>

\* s.rwl.Lock(); sids := s.lru.findExpiredItems(...)
gcFind ==
    /\ running
    /\ gcs.pc = "find"
    /\ canLock
    /\ writer' = "gc"
    /\ gcs' = [gcs EXCEPT !.pc = "remove", !.t = 0,
                 !.sids = findExpiredItems(lru,
                            [v \in 0..MaxLongTime |-> isExpiredAt(gcs.t, v)])]
    /\ UNCHANGED <<boot, sessions, lru, isClosed, closeChan, data, now, th,
                   cl, calls, crashed>>

\* s.lru.remove(sids...)
gcRemove ==
    /\ running
    /\ gcs.pc = "remove"
    /\ lru' = remove(lru, gcs.sids)
    /\ gcs' = [gcs EXCEPT !.pc = "expire"]
    /\ UNCHANGED <<boot, sessions, isClosed, closeChan, writer, data, now,
                   th, cl, calls, crashed>>

\* a sweep that stops at the first handle that fails
gcExpireStop ==
    /\ running
    /\ gcs.pc = "expire"
    /\ gcs.i <= Len(gcs.sids)
    /\ LET sid == gcs.sids[gcs.i] IN
       IF sid \notin DOMAIN sessions
       THEN /\ crashed' = TRUE
            /\ UNCHANGED <<sessions, data, gcs>>
       ELSE \E err \in Errs :
              /\ data' = IF err = NoErr
                         THEN storeExpire(data, sessions[sid].sid) ELSE data
              /\ sessions' = IF err = NoErr THEN mapDelete(sessions, sid)
                             ELSE sessions
              /\ gcs' = IF err = NoErr THEN [gcs EXCEPT !.i = gcs.i + 1]
                        ELSE [gcs EXCEPT !.i = Len(gcs.sids) + 1]
              /\ crashed' = crashed
    /\ UNCHANGED <<boot, lru, isClosed, closeChan, writer, now, th, cl, calls>>

\* one iteration of the loop of lines 235-239; the method call on the nil
\* interface value of a missing map entry panics
gcExpire ==
    /\ running
    /\ gcs.pc = "expire"
    /\ gcs.i <= Len(gcs.sids)
    /\ LET sid == gcs.sids[gcs.i] IN
       IF sid \notin DOMAIN sessions
       THEN /\ crashed' = TRUE
            /\ UNCHANGED <<sessions, data, gcs>>
       ELSE \E err \in Errs :
              /\ data' = IF err = NoErr
                         THEN storeExpire(data, sessions[sid].sid) ELSE data
              /\ sessions' = mapDelete(sessions, sid)
              /\ gcs' = [gcs EXCEPT !.i = gcs.i + 1]
              /\ crashed' = crashed
    /\ UNCHANGED <<boot, lru, isClosed, closeChan, writer, now, th, cl, calls>>

\* the loop is over: s.rwl.Unlock()
gcUnlock ==
    /\ running
    /\ gcs.pc = "expire"
    /\ gcs.i > Len(gcs.sids)
    /\ writer' = NoWriter
    /\ gcs' = [gcs EXCEPT !.pc = "release", !.sids = <<>>, !.i = 1]
    /\ UNCHANGED <<boot, sessions, lru, isClosed, closeChan, data, now, th,
                   cl, calls, crashed>>

\* <-s.closeChan
gcRelease ==
    /\ running
    /\ gcs.pc = "release"
    /\ closeChan' = closeChan - 1
    /\ gcs' = [gcs EXCEPT !.pc = "select"]
    /\ UNCHANGED <<boot, sessions, lru, isClosed, writer, data, now, th,
                   cl, calls, crashed>>

\* ---- Session.Close, lines 100-106 ---------------------------------------
\* s.withWriteLock(func() { s.isClosed = true })
CloseMark ==
    /\ running
    /\ cl.pc = "idle"
    /\ canLock
    /\ isClosed' = TRUE
    /\ cl' = [cl EXCEPT !.pc = "poll"]
    /\ UNCHANGED <<boot, sessions, lru, closeChan, writer, data, now, th,
                   gcs, calls, crashed>>

\* for len(s.closeChan) > 0 { sleep }: the loop is left on length 0
ClosePoll ==
    /\ running
    /\ cl.pc = "poll"
    /\ ~(closeChan > 0)
    /\ cl' = [cl EXCEPT !.pc = "signal"]
    /\ UNCHANGED <<boot, sessions, lru, isClosed, closeChan, writer, data, now, th, gcs, calls, crashed>>

\* a closeSignal with a buffer: Close leaves its send without meeting gc
CloseSignalBuffered ==
    /\ running
    /\ cl.pc = "signal"
    /\ cl' = [cl EXCEPT !.pc = "returned"]
    /\ UNCHANGED <<boot, sessions, lru, isClosed, closeChan, writer, data, now, th, gcs, calls, crashed>>

\* s.closeSignal <- struct{}{} meets gc's receive in its select; gc returns
CloseSignal ==
    /\ running
    /\ cl.pc = "signal"
    /\ gcs.pc = "select"
    /\ gcs' = [gcs EXCEPT !.pc = "exited"]
    /\ cl' = [cl EXCEPT !.pc = "returned"]
    /\ UNCHANGED <<boot, sessions, lru, isClosed, closeChan, writer, data, now, th, calls, crashed>>

\* Close is called again after it has returned:
\* s.withWriteLock(func() { s.isClosed = true })
CloseAgain ==
    /\ running
    /\ cl.pc = "returned"
    /\ canLock
    /\ isClosed' = TRUE
    /\ cl' = [cl EXCEPT !.pc = "poll"]
    /\ UNCHANGED <<boot, sessions, lru, closeChan, writer, data, now, th,
                   gcs, calls, crashed>>

\* ---- the clock ------------------------------------------------------------
Tick ==
    /\ running
    /\ now < MaxTime
    /\ now' = now + 1
    /\ UNCHANGED <<boot, sessions, lru, isClosed, closeChan, writer, data, th, gcs, cl, calls, crashed>>

\* the clock in a run long enough for two sweeps that are more than a
\* lifetime apart
TickLong ==
    /\ running
    /\ now < MaxLongTime
    /\ now' = now + 1
    /\ UNCHANGED <<boot, sessions, lru, isClosed, closeChan, writer, data, th, gcs, cl, calls, crashed>>

\* ---- Register, lines 39-44 ------------------------------------------------
StoreNames == {"file", "memory"}

Factories == {"newFileStore", "newMemStore"}

\* what the store's Init can report: session directories on disk with their
\* modification times
DiskStates == UNION {[S -> 0..InitNow] : S \in SUBSET Ids}

\* the ids Init() of the chosen store returns: the file store walks its
\* directory, the memory store has nothing to recover
initIds(b) ==
    IF b.registry[b.name] = "newFileStore" THEN DOMAIN b.disk ELSE {}

\* a Register that binds the name again
RegisterOverwrite(name, f) ==
    /\ running
    /\ boot.pc = "start"
    /\ boot' = [boot EXCEPT !.op = "Register", !.name = name, !.f = f,
                  !.registry = [n \in DOMAIN boot.registry \cup {name} |->
                                  IF n = name THEN f ELSE boot.registry[n]]]
    /\ UNCHANGED <<sessions, lru, isClosed, closeChan, writer, data, now,
                   th, gcs, cl, calls, crashed>>

Register(name, f) ==
    /\ running
    /\ boot.pc = "start"
    /\ IF name \in DOMAIN boot.registry
       THEN /\ boot' = [boot EXCEPT !.pc = "panicked", !.op = "Register",
                          !.name = name, !.f = f]
            /\ crashed' = TRUE
       ELSE /\ boot' = [boot EXCEPT !.op = "Register", !.name = name, !.f = f,
                          !.registry = boot.registry @@ (name :> f)]
            /\ crashed' = crashed
    /\ UNCHANGED <<sessions, lru, isClosed, closeChan, writer, data, now,
                   th, gcs, cl, calls>>

\* ---- NewSession, lines 69-95 ----------------------------------------------
\* lines 70-83: the struct is built and the store is looked up; an
\* unregistered name panics, a registered one has its Init() called
NewSession(name) ==
    /\ running
    /\ boot.pc = "start"
    /\ IF name \notin DOMAIN boot.registry
       THEN /\ boot' = [boot EXCEPT !.pc = "panicked", !.op = "NewSession",
                          !.name = name, !.f = ""]
            /\ crashed' = TRUE
       ELSE /\ boot' = [boot EXCEPT !.pc = "recover", !.op = "NewSession",
                          !.name = name, !.f = boot.registry[name],
                          !.pending = initIds([boot EXCEPT !.name = name])]
            /\ crashed' = crashed
    /\ UNCHANGED <<sessions, lru, isClosed, closeChan, writer, data, now,
                   th, gcs, cl, calls>>

\* a recovery that gives every recovered session the current time
NewSessionRecoverNow ==
    /\ running
    /\ boot.pc = "recover"
    /\ \E sid \in boot.pending :
         /\ lru' = put(lru, sid, now)
         /\ sessions' = mapStore(sessions, sid, newHandle(sid))
         /\ data' = mkdir(data, sid)
         /\ boot' = [boot EXCEPT !.pending = boot.pending \ {sid}]
    /\ UNCHANGED <<isClosed, closeChan, writer, now, th, gcs, cl, calls,
                   crashed>>

\* lines 84-87: one iteration of the range over the map Init() returned
NewSessionRecover ==
    /\ running
    /\ boot.pc = "recover"
    /\ \E sid \in boot.pending :
         /\ lru' = put(lru, sid, boot.disk[sid])
         /\ sessions' = mapStore(sessions, sid, newHandle(sid))
         /\ data' = mkdir(data, sid)
         /\ boot' = [boot EXCEPT !.pending = boot.pending \ {sid}]
    /\ UNCHANGED <<isClosed, closeChan, writer, now, th, gcs, cl, calls,
                   crashed>>

\* lines 91-94: go s.gc(); return s.  The map Init() returned is dropped.
NewSessionStart ==
    /\ running
    /\ boot.pc = "recover"
    /\ boot.pending = {}
    /\ gcs' = [gcs EXCEPT !.pc = "select"]
    /\ boot' = [boot EXCEPT !.pc = "running", !.disk = <<>>]
    /\ UNCHANGED <<sessions, lru, isClosed, closeChan, writer, data, now,
                   th, cl, calls, crashed>>

\* the registry and the progress of NewSession once the file store was
\* registered and NewSession("file", ...) has returned
Booted ==
    [pc |-> "running", op |-> "NewSession", name |-> "file",
     f |-> "newFileStore", registry |-> ("file" :> "newFileStore"),
     disk |-> <<>>, pending |-> {}]

\* the process at its start: nothing registered, no manager, no gc
InitBoot ==
    /\ \E d \in DiskStates :
         /\ boot = [pc |-> "start", op |-> NoOp, name |-> "", f |-> "",
                    registry |-> <<>>, disk |-> d, pending |-> {}]
         /\ data = [sid \in DOMAIN d |-> RecoveredData]
    /\ sessions = <<>>
    /\ lru = <<>>
    /\ isClosed = FALSE
    /\ closeChan = 0
    /\ writer = NoWriter
    /\ now = InitNow
    /\ th = [t \in Callers |-> Idle]
    /\ gcs = [pc |-> "none", t |-> 0, sids |-> <<>>, i |-> 1]
    /\ cl = [pc |-> "idle"]
    /\ calls = 0
    /\ crashed = FALSE

\* ---- NewSession, lines 69-95 ----------------------------------------------
\* the sessions the store's Init reports, put in the map's iteration order
RecoveredIds == {"a"}

Recovered ==
    {l \in UNION {[1..n -> [key : RecoveredIds, val : 0..InitNow]] :
                      n \in 0..Cardinality(RecoveredIds)} :
        \A i, j \in 1..Len(l) : i # j => l[i].key # l[j].key}

Init ==
    /\ \E l \in Recovered :
         /\ lru = l
         /\ sessions = [sid \in lruKeys(l) |-> newHandle(sid)]
         /\ data = [sid \in lruKeys(l) |-> RecoveredData]
    /\ isClosed = FALSE
    /\ closeChan = 0
    /\ writer = NoWriter
    /\ now = InitNow
    /\ th = [t \in Callers |-> Idle]
    /\ gcs = [pc |-> "select", t |-> 0, sids |-> <<>>, i |-> 1]
    /\ cl = [pc |-> "idle"]
    /\ calls = 0
    /\ crashed = FALSE
    /\ boot = Booted

Next ==
    \/ \E t \in Solo : SetCall(t)
    \/ \E t \in Solo : DeleteCall(t)
    \/ \E t \in Solo : UpdateCall(t)
    \/ \E t \in Solo : ExpireCall(t)
    \/ \E t \in Solo : FlushCall(t)
    \/ \E t \in Solo : doAdmit(t)
    \/ \E t \in Solo : doRelease(t)
    \/ \E t \in Solo : Get(t)
    \/ \E t \in Solo : SetRead(t)
    \/ \E t \in Solo : SetMintLock(t)
    \/ \E t \in Solo : newSIdFail(t)
    \/ \E t \in Solo : newSIdRetry(t)
    \/ \E t \in Solo : SetMintInsert(t)
    \/ \E t \in Solo : SetPut(t)
    \/ \E t \in Solo : Delete(t)
    \/ \E t \in Solo : Update(t)
    \/ \E t \in Solo : Expire(t)
    \/ \E t \in Solo : FlushLock(t)
    \/ \E t \in Solo : FlushExpire(t)
    \/ \E t \in Solo : FlushUnlock(t)
    \/ gcTick
    \/ gcAdmit
    \/ gcFind
    \/ gcRemove
    \/ gcExpire
    \/ gcUnlock
    \/ gcRelease
    \/ CloseMark
    \/ ClosePoll
    \/ CloseSignal
    \/ Tick

\* one caller goroutine, the sweep and Close, in every interleaving
Spec == Init /\ [][Next]_vars

\* two caller goroutines that call Set with the empty id, and the sweep
NextMint ==
    \/ \E t \in Callers : MintCall(t)
    \/ \E t \in Callers : doAdmit(t)
    \/ \E t \in Callers : doRelease(t)
    \/ \E t \in Callers : SetMintLock(t)
    \/ \E t \in Callers : newSIdFail(t)
    \/ \E t \in Callers : newSIdRetry(t)
    \/ \E t \in Callers : SetMintInsert(t)
    \/ \E t \in Callers : SetPut(t)
    \/ gcTick
    \/ gcAdmit
    \/ gcFind
    \/ gcRemove
    \/ gcExpire
    \/ gcUnlock
    \/ gcRelease
    \/ Tick

SpecMint == Init /\ [][NextMint]_vars

\* one caller goroutine whose operations do not overlap a sweep
sweeping == gcs.pc \notin {"select", "exited"}

NextSeq ==
    \/ /\ ~sweeping
       /\ \E t \in Solo :
            \/ SetCall(t) \/ DeleteCall(t) \/ UpdateCall(t) \/ ExpireCall(t)
            \/ FlushCall(t) \/ doAdmit(t) \/ doRelease(t) \/ Get(t)
            \/ SetRead(t) \/ SetMintLock(t) \/ SetMintInsert(t) \/ SetPut(t)
            \/ newSIdFail(t) \/ newSIdRetry(t)
            \/ Delete(t) \/ Update(t) \/ Expire(t)
            \/ FlushLock(t) \/ FlushExpire(t) \/ FlushUnlock(t)
    \/ /\ \A t \in Callers : th[t].pc = "idle"
       /\ gcTick
    \/ gcAdmit
    \/ gcFind
    \/ gcRemove
    \/ gcExpire
    \/ gcUnlock
    \/ gcRelease
    \/ CloseMark
    \/ ClosePoll
    \/ CloseSignal
    \/ Tick

SpecSeq == Init /\ [][NextSeq]_vars

\* one caller goroutine that calls Set, and the sweep, over a longer time
NextRace ==
    \/ \E t \in Solo : SetCall(t)
    \/ \E t \in Solo : doAdmit(t)
    \/ \E t \in Solo : doRelease(t)
    \/ \E t \in Solo : SetRead(t)
    \/ \E t \in Solo : SetMintLock(t)
    \/ \E t \in Solo : newSIdFail(t)
    \/ \E t \in Solo : newSIdRetry(t)
    \/ \E t \in Solo : SetMintInsert(t)
    \/ \E t \in Solo : SetPut(t)
    \/ gcTick
    \/ gcAdmit
    \/ gcFind
    \/ gcRemove
    \/ gcExpire
    \/ gcUnlock
    \/ gcRelease
    \/ TickLong

SpecRace == Init /\ [][NextRace]_vars

\* one caller goroutine that calls Update and Expire, the sweep, and a
\* goroutine that calls Close and may call it again
NextClose ==
    \/ \E t \in Solo : UpdateCall(t)
    \/ \E t \in Solo : ExpireCall(t)
    \/ \E t \in Solo : doAdmit(t)
    \/ \E t \in Solo : doRelease(t)
    \/ \E t \in Solo : Update(t)
    \/ \E t \in Solo : Expire(t)
    \/ gcTick
    \/ gcAdmit
    \/ gcFind
    \/ gcRemove
    \/ gcExpire
    \/ gcUnlock
    \/ gcRelease
    \/ CloseMark
    \/ ClosePoll
    \/ CloseSignal
    \/ CloseAgain
    \/ Tick

\* every goroutine that can take its next step takes it: an admitted
\* operation finishes, the sweep runs to its end, Close goes on when its
\* wait is over, and gc's select takes closeSignal when Close is sending
FairClose ==
    /\ \A t \in Solo : WF_vars(doAdmit(t)) /\ WF_vars(doRelease(t))
    /\ \A t \in Solo : WF_vars(Update(t)) /\ WF_vars(Expire(t))
    /\ WF_vars(gcAdmit) /\ WF_vars(gcFind) /\ WF_vars(gcRemove)
    /\ WF_vars(gcExpire) /\ WF_vars(gcUnlock) /\ WF_vars(gcRelease)
    /\ WF_vars(ClosePoll) /\ WF_vars(CloseSignal)

SpecClose == Init /\ [][NextClose]_vars /\ FairClose

\* the start of the process: registrations, NewSession, then the sweep
NextBoot ==
    \/ \E name \in StoreNames, f \in Factories : Register(name, f)
    \/ \E name \in StoreNames : NewSession(name)
    \/ NewSessionRecover
    \/ NewSessionStart
    \/ gcTick
    \/ gcAdmit
    \/ gcFind
    \/ gcRemove
    \/ gcExpire
    \/ gcUnlock
    \/ gcRelease
    \/ Tick

SpecBoot == InitBoot /\ [][NextBoot]_vars

\* ---- the LRU index on its own: lru.go and Test_LRU ------------------------
\* In this part `lru` is an index (list and cache), `th` is the call made
\* last on it by the one goroutine that uses it, and `now` is that
\* goroutine's clock; there is no manager.
LruKeys == {"a", "b", "c"}

\* the argument lists of remove that are tried
MaxRemove == 2

KeySeqs == UNION {[1..n -> LruKeys] : n \in 0..MaxRemove}

\* lru_test.go: the nine keys, and the 5 seconds of Add(-5*time.Second)
\* and of the predicate
testIds == <<"sessionid1", "sessionid2", "sessionid3", "sessionid4",
             "sessionid5", "sessionid6", "sessionid7", "sessionid8",
             "sessionid9">>

testAge == 5

\* lru_test.go lines 11-27: the puts of Test_LRU in their order; old is a
\* value of time.Now().Add(-5*time.Second), otherwise time.Now()
testPuts ==
    <<[id |-> 1, old |-> TRUE], [id |-> 2, old |-> TRUE],
      [id |-> 3, old |-> TRUE], [id |-> 4, old |-> TRUE],
      [id |-> 5, old |-> TRUE], [id |-> 6, old |-> FALSE],
      [id |-> 7, old |-> FALSE], [id |-> 8, old |-> FALSE],
      [id |-> 9, old |-> FALSE], [id |-> 3, old |-> FALSE],
      [id |-> 1, old |-> FALSE], [id |-> 4, old |-> FALSE]>>

\* the times an element can carry
lruTimes == 0..(testAge + MaxTime)

\* a call on the index: pc is 0 for a caller that may call anything and the
\* number of the next statement for Test_LRU
lruCall(pc, op, ks, v, p, ret) ==
    [pc |-> pc, op |-> op, ks |-> ks, val |-> v, p |-> p, ret |-> ret]

noManager ==
    UNCHANGED <<boot, sessions, isClosed, closeChan, writer, data, gcs, cl,
                calls, crashed>>

\* l.put(k, v)
LruPut(pc, k, v) ==
    /\ lru' = lruPut(lru, k, v)
    /\ th' = lruCall(pc, "put", <<k>>, v, <<>>, <<>>)
    /\ UNCHANGED now
    /\ noManager

\* l.remove(ks...)
LruRemove(pc, ks) ==
    /\ lru' = lruRemove(lru, ks)
    /\ th' = lruCall(pc, "remove", ks, 0, <<>>, <<>>)
    /\ UNCHANGED now
    /\ noManager

\* keys := l.findExpiredItems(p)
LruFind(pc, p) ==
    /\ th' = lruCall(pc, "findExpiredItems", <<>>, 0, p,
                     findExpiredItems(lru.l, p))
    /\ UNCHANGED <<lru, now>>
    /\ noManager

\* any call, with any arguments
AnyPut == th.pc = 0 /\ \E k \in LruKeys, v \in 0..MaxTime : LruPut(0, k, v)

AnyRemove == th.pc = 0 /\ \E ks \in KeySeqs : LruRemove(0, ks)

AnyFind == th.pc = 0 /\ \E p \in [0..MaxTime -> BOOLEAN] : LruFind(0, p)

\* Test_LRU, lines 11-19 and 25-27
TestPut ==
    /\ th.pc \in 1..Len(testPuts)
    /\ LET s == testPuts[th.pc] IN
       LruPut(th.pc + 1, testIds[s.id], IF s.old THEN now - testAge ELSE now)

\* Test_LRU, lines 29-31: time.Since(val) > 5*time.Second
TestFind ==
    /\ th.pc = Len(testPuts) + 1
    /\ LruFind(th.pc + 1, [v \in lruTimes |-> now - v > testAge])

\* Test_LRU, line 32: lru.remove(keys...)
TestRemove ==
    /\ th.pc = Len(testPuts) + 2
    /\ LruRemove(th.pc + 1, th.ret)

\* time passes between two statements of Test_LRU
TestTick ==
    /\ th.pc \in 1..(Len(testPuts) + 2)
    /\ now < testAge + MaxTime
    /\ now' = now + 1
    /\ UNCHANGED <<lru, th>>
    /\ noManager

InitLru ==
    /\ lru = newLRU
    /\ \/ th = lruCall(0, NoOp, <<>>, 0, <<>>, <<>>) /\ now = InitNow
       \/ th = lruCall(1, NoOp, <<>>, 0, <<>>, <<>>) /\ now = testAge
    /\ sessions = <<>>
    /\ isClosed = FALSE
    /\ closeChan = 0
    /\ writer = NoWriter
    /\ data = <<>>
    /\ gcs = [pc |-> "none", t |-> 0, sids |-> <<>>, i |-> 1]
    /\ cl = [pc |-> "idle"]
    /\ calls = 0
    /\ crashed = FALSE
    /\ boot = [pc |-> "start", op |-> NoOp, name |-> "", f |-> "",
               registry |-> <<>>, disk |-> <<>>, pending |-> {}]

NextLru ==
    \/ AnyPut
    \/ AnyRemove
    \/ AnyFind
    \/ TestPut
    \/ TestFind
    \/ TestRemove
    \/ TestTick

\* the index used by one goroutine: any calls, or the calls of Test_LRU
SpecLru == InitLru /\ [][NextLru]_vars

\* an index is well formed: the cache holds the keys of the list and no
\* key stands twice in the list
wellFormed(x) ==
    /\ x.cache = lruKeys(x.l)
    /\ \A i, j \in 1..Len(x.l) : x.l[i].key = x.l[j].key => i = j

\* ======================================================================
\* Properties
\* ======================================================================
DoOps == {"Set", "Delete", "Update", "Expire", "Flush"}

\* t is inside an operation it was admitted to (or is about to be)
inFlight(t) == th[t].pc # "idle"

\* the step is t entering an operation
issues(t) == th[t].pc = "idle" /\ calls' = calls + 1 /\ th'[t] # th[t]

\* C1. Drain correctness: when Close has returned, no operation that read
\* the closed flag as open is still executing or still has to execute its
\* body, and no sweep is executing.
C1_DrainCorrectness ==
    cl.pc = "returned" =>
        /\ \A t \in Callers : ~inFlight(t)
        /\ gcs.pc \in {"select", "exited"}

\* C2. Lock-step: whenever no operation and no sweep is in flight, the ids
\* of the live-session map are the ids of the LRU index.
Quiescent ==
    /\ \A t \in Callers : ~inFlight(t)
    /\ gcs.pc \in {"select", "exited"}
    /\ cl.pc \in {"idle", "returned"}

C2_LockStep == Quiescent => DOMAIN sessions = lruKeys(lru)

\* C3. Once the closed flag is set it stays set, and every Set, Delete,
\* Update, Expire and Flush issued from then on returns at once with the
\* empty id and a nil error, having called no handle and changed neither
\* the live-session map nor the LRU index.
C3_ClosedNoOp ==
    [][/\ isClosed => isClosed'
       /\ \A t \in Callers :
            (isClosed /\ issues(t) /\ th'[t].op \in DoOps) =>
                /\ th'[t].pc = "idle"
                /\ th'[t].sid = EMPTY_STRING
                /\ th'[t].err = NoErr
                /\ closeChan' = closeChan
                /\ <<sessions, lru, data>>' = <<sessions, lru, data>>]_vars

\* a Set on a live id, issued on the closed manager, has returned the
\* empty id
C3_Witness ==
    /\ isClosed
    /\ \E t \in Callers :
         /\ th[t].pc = "idle"
         /\ th[t].op = "Set"
         /\ th[t].arg \in DOMAIN sessions
         /\ th[t].sid = EMPTY_STRING

\* C4. After Close has returned, Get returns absent for every id and key.
C4_GetAfterClose ==
    [][\A t \in Callers :
         (cl.pc = "returned" /\ issues(t) /\ th'[t].op = "Get") =>
             th'[t].ret = Absent]_vars

\* C5. Idle expiry: every session the sweep finds idle for longer than the
\* lifetime is, when that sweep completes, in neither the live-session map
\* nor the LRU index.
C5_IdleExpiry ==
    [][(gcs.pc = "expire" /\ gcs'.pc = "release") =>
          \A n \in 1..Len(gcs.sids) :
              /\ gcs.sids[n] \notin DOMAIN sessions'
              /\ gcs.sids[n] \notin lruKeys(lru')]_vars

\* C6. Update on a live session refreshes its recency: when Update has
\* run at time now, the session's touch time in the LRU index is at least
\* now.
C6_UpdateRefreshesRecency ==
    [][\A t \in Callers :
         (th[t].pc = "update" /\ th'[t].pc = "release"
            /\ th[t].arg \in DOMAIN sessions) =>
              /\ th[t].arg \in lruKeys(lru')
              /\ lruVal(lru', th[t].arg) >= now]_vars

\* C7. Id uniqueness under concurrent Set("", k, v): the ids the callers
\* hold are not empty, pairwise distinct and each bound to its own handle, as
\* long as no session minted since the start can have reached its lifetime;
\* a minted id is not live when it is inserted, so it differs from the id
\* of every other caller's session that is live at that moment; the
\* insertion adds exactly that id, bound to its own new handle, and leaves
\* every other id with its handle; and the section from the collision check
\* to the insertion is executed by one caller at a time.
inserts(t) == th[t].pc = "insert" /\ th'[t].pc = "put"

minted(t) == th[t].op = "Set" /\ ~th[t].cont /\ th[t].pc \in {"put", "release"}

holdsId(t) ==
    /\ th[t].op = "Set" /\ th[t].arg = EMPTY_STRING
    /\ th[t].pc \in {"put", "release", "idle"}
    /\ ~(th[t].pc = "idle" /\ th[t].sid = EMPTY_STRING)

C7_IdUniqueness ==
    /\ [](\A t, u \in Callers :
            (t # u /\ th[t].pc = "insert") =>
                (th[u].pc # "insert" /\ writer = t))
    /\ [](now <= InitNow + sessionLifeTime =>
            \A t \in Callers :
               holdsId(t) =>
                  /\ th[t].sid # EMPTY_STRING
                  /\ th[t].sid \in DOMAIN sessions
                  /\ sessions[th[t].sid] = newHandle(th[t].sid)
                  /\ \A u \in Callers \ {t} :
                        holdsId(u) => th[u].sid # th[t].sid)
    /\ [][\A t \in Callers :
            inserts(t) =>
                /\ th[t].sid # EMPTY_STRING
                /\ th[t].sid \notin DOMAIN sessions
                /\ DOMAIN sessions' = DOMAIN sessions \cup {th[t].sid}
                /\ sessions'[th[t].sid] = newHandle(th[t].sid)
                /\ \A o \in DOMAIN sessions : sessions'[o] = sessions[o]
                /\ \A u \in Callers \ {t} :
                     (th[u].op = "Set" /\ th[u].sid \in DOMAIN sessions) =>
                         th[u].sid # th[t].sid]_vars

\* two overlapping Set("") calls hold two different live ids
C7_Witness ==
    \E t, u \in Callers :
        /\ t # u /\ minted(t) /\ minted(u)
        /\ th[t].arg = EMPTY_STRING /\ th[u].arg = EMPTY_STRING
        /\ th[t].sid # th[u].sid
        /\ {th[t].sid, th[u].sid} \subseteq DOMAIN sessions

\* C8. Round trip: a Get of the key, on the id a successful Set returned,
\* returns the value set, when no Close was issued, no other operation was
\* issued since and the session is still live; and a Set changes the value
\* of no other key and of no other session.
C8_RoundTrip ==
    [][\A t \in Callers :
         /\ (/\ issues(t) /\ th'[t].op = "Get"
             /\ th[t].op = "Set" /\ th[t].err = NoErr
             /\ th[t].sid # EMPTY_STRING
             /\ th'[t].arg = th[t].sid /\ th'[t].key = th[t].key
             /\ ~isClosed /\ cl.pc = "idle"
             /\ th[t].sid \in DOMAIN sessions
             /\ \A u \in Callers \ {t} : th[u].op = NoOp)
            => th'[t].ret = th[t].val
         /\ (th[t].pc \in {"read", "insert"} /\ th'[t].pc = "put") =>
               \A sid \in DOMAIN data, k \in Keys :
                   (sid # th'[t].sid \/ k # th[t].key) =>
                       storeGet(data', sid, k) = storeGet(data, sid, k)]_vars

\* a Get has returned v1, which only a Set can have stored
C8_Witness ==
    /\ ~isClosed
    /\ \E t \in Callers :
         /\ th[t].pc = "idle" /\ th[t].op = "Get"
         /\ th[t].arg \in DOMAIN sessions
         /\ th[t].ret = "v1"

\* C9. Set, when no other operation or sweep overlaps it.  A live id is
\* returned as it is, with no handle created and the live ids unchanged.
\* Otherwise an id that is not empty and not live is minted -- and, in the
\* original claim, different from the given id --, exactly one handle is
\* created, and the id is in the live map and the LRU index when Set
\* returns.  In both cases the put gives the id the current time.
C9_Body(differsFromGiven) ==
    \A t \in Callers :
      /\ (th[t].pc = "read" /\ th'[t].pc = "put") =>
            /\ th[t].arg \in DOMAIN sessions
            /\ th'[t].sid = th[t].arg
            /\ sessions' = sessions
      /\ (th[t].pc = "read" /\ th'[t].pc = "mint") =>
            th[t].arg \notin DOMAIN sessions
      /\ inserts(t) =>
            /\ th[t].sid # EMPTY_STRING
            /\ th[t].sid \notin DOMAIN sessions
            /\ differsFromGiven => th[t].sid # th[t].arg
            /\ DOMAIN sessions' = DOMAIN sessions \cup {th[t].sid}
            /\ \A o \in DOMAIN sessions : sessions'[o] = sessions[o]
      /\ (th[t].pc = "put" /\ th'[t].pc = "release") =>
            /\ th[t].sid \in lruKeys(lru')
            /\ lruVal(lru', th[t].sid) = now
            /\ sessions' = sessions
      /\ (th[t].op = "Set" /\ th[t].pc = "release" /\ th'[t].pc = "idle") =>
            /\ th'[t].sid = th[t].sid
            /\ th[t].cont => th[t].sid = th[t].arg
            /\ th[t].sid \in DOMAIN sessions'
            /\ th[t].sid \in lruKeys(lru')
            /\ lruVal(lru', th[t].sid) <= now

C10_Expire ==
    [][\A t \in Callers :
         /\ (th[t].pc = "expire" /\ th'[t].pc = "release"
               /\ th[t].arg \in DOMAIN sessions) =>
              /\ th[t].arg \notin DOMAIN sessions'
              /\ th[t].arg \notin lruKeys(lru')
              /\ th[t].arg \in DOMAIN data =>
                    (th'[t].err = NoErr <=> th[t].arg \notin DOMAIN data')
              /\ DOMAIN sessions' = DOMAIN sessions \ {th[t].arg}
              /\ \A o \in DOMAIN sessions' : sessions'[o] = sessions[o]
              /\ \A o \in DOMAIN data \ {th[t].arg} :
                    o \in DOMAIN data' /\ data'[o] = data[o]
              /\ lru' = listRemove(lru, th[t].arg)
         /\ (th[t].op = "Expire" /\ th[t].pc = "release" /\ th'[t].pc = "idle")
               => th'[t].err = th[t].err]_vars

\* Expire has returned the handle's error; the session is gone from the map
\* and the index, another session is still live
C10_Witness ==
    \E t \in Callers :
        /\ th[t].pc = "idle" /\ th[t].op = "Expire" /\ th[t].err = IOErr
        /\ th[t].arg \in DOMAIN data
        /\ th[t].arg \notin DOMAIN sessions
        /\ th[t].arg \notin lruKeys(lru)
        /\ DOMAIN sessions # {}

\* C11. Flush holds the exclusive lock from its first iteration to its
\* last.  An iteration whose handle Expire succeeds removes exactly one
\* session from the live map and from the LRU index, with its store.  Flush
\* ends with nil only when the live map is empty.  At the first handle
\* error Flush stops and returns that error, and that step changes neither
\* the live map nor the LRU index nor the stores: the sessions removed
\* before stay removed, the failing one and those not visited stay in.
C11_Flush ==
    /\ [](\A t \in Callers : th[t].pc = "flushing" => writer = t)
    /\ [][\A t \in Callers :
            /\ (th[t].pc = "flushing" /\ sessions' # sessions) =>
                  \E sid \in DOMAIN sessions :
                     /\ sessions' = mapDelete(sessions, sid)
                     /\ sid \notin lruKeys(lru')
                     /\ lru' = remove(lru, <<sid>>)
                     /\ sid \notin DOMAIN data'
                     /\ th'[t].pc = "flushing" /\ th'[t].err = NoErr
            /\ (th[t].pc = "flushing" /\ th'[t].pc = "release") =>
                  /\ <<sessions, lru, data>>' = <<sessions, lru, data>>
                  /\ writer' = NoWriter
                  /\ IF th'[t].err = NoErr
                     THEN DOMAIN sessions = {}
                     ELSE DOMAIN sessions # {}
            /\ (th[t].op = "Flush" /\ th[t].pc = "release"
                  /\ th'[t].pc = "idle") => th'[t].err = th[t].err]_vars

\* Flush has returned a handle's error; the session it failed on, minted
\* beside the recovered one, is in the live map and in the LRU index and no
\* other store is left
C11_Witness ==
    \E t \in Callers :
        /\ th[t].pc = "idle" /\ th[t].op = "Flush" /\ th[t].err = IOErr
        /\ DOMAIN sessions = {"b"}
        /\ DOMAIN sessions \subseteq lruKeys(lru)
        /\ DOMAIN data = DOMAIN sessions

\* C12. Get, Delete, Update and Expire on the empty id or on an id that is
\* not in the live map return no error (Get returns absent) and leave the
\* live map, the LRU index and every store as they are.
C12_UnknownIdNoOp ==
    [][\A t \in Callers :
         /\ (issues(t) /\ th'[t].op = "Get"
               /\ th'[t].arg \notin DOMAIN sessions) =>
              /\ th'[t].ret = Absent
              /\ <<sessions, lru, data>>' = <<sessions, lru, data>>
         /\ (issues(t) /\ th'[t].op \in {"Delete", "Update", "Expire"}
               /\ th'[t].arg = EMPTY_STRING) =>
              /\ th'[t].pc = "idle" /\ th'[t].err = NoErr
              /\ <<sessions, lru, data>>' = <<sessions, lru, data>>
         /\ (th[t].pc \in {"delete", "update", "expire"}
               /\ th'[t].pc = "release"
               /\ th[t].arg \notin DOMAIN sessions) =>
              /\ th'[t].err = NoErr
              /\ <<sessions, lru, data>>' = <<sessions, lru, data>>]_vars

\* C13. Idempotent expiry: when Expire(id) is issued again after Expire(id)
\* has returned, with no Set in between and whatever the first handle Expire
\* returned, the id is in neither the live map nor the LRU index (or the
\* manager is closed and the call returns at once); it stays so until the
\* second Expire runs; and an Expire on such an id returns nil, does not
\* panic and changes nothing.
expiresAgain(t) ==
    /\ th[t].pc = "idle" /\ th[t].op = "Expire"
    /\ calls' = calls + 1
    /\ th'[t].op = "Expire" /\ th'[t].arg = th[t].arg
    /\ th[t].arg # EMPTY_STRING

inNeither(sid) == sid \notin DOMAIN sessions /\ sid \notin lruKeys(lru)

C13_IdempotentExpire ==
    [][\A t \in Callers :
         /\ expiresAgain(t) =>
              /\ isClosed \/ inNeither(th[t].arg)
              /\ isClosed => (th'[t].pc = "idle" /\ th'[t].err = NoErr)
              /\ <<sessions, lru, data>>' = <<sessions, lru, data>>
         /\ (th[t].op = "Expire" /\ th[t].pc \in {"admit", "expire"}
               /\ inNeither(th[t].arg)) =>
              /\ th[t].arg \notin DOMAIN sessions'
              /\ th[t].arg \notin lruKeys(lru')
         /\ (th[t].pc = "expire" /\ th'[t].pc = "release"
               /\ inNeither(th[t].arg)) =>
              /\ th'[t].err = NoErr
              /\ crashed' = crashed
              /\ <<sessions, lru, data>>' = <<sessions, lru, data>>
         /\ (th[t].op = "Expire" /\ th[t].pc = "release"
               /\ th'[t].pc = "idle") => th'[t].err = th[t].err]_vars

\* the second Expire of a has returned nil; the store of a is still there,
\* so the handle Expire of the first one had failed, and no sweep can have
\* expired a by now
C13_Witness ==
    \E t \in Callers :
        /\ th[t].pc = "idle" /\ th[t].op = "Expire" /\ th[t].arg = "a"
        /\ th[t].err = NoErr
        /\ calls = 2 /\ now = InitNow /\ ~isClosed
        /\ "a" \in DOMAIN data
        /\ inNeither("a")

\* C14. The sweep removes all the ids it found expired from the LRU index
\* in one step, then visits them one by one: whether the handle's Expire
\* succeeds or fails, the session leaves the live map in that step, no
\* caller's result changes, and the sweep goes on to the next id; it gives
\* the lock back only after the last one.
C14_SweepIgnoresErrors ==
    [][/\ (gcs.pc = "remove" /\ gcs'.pc = "expire") =>
            /\ lru' = remove(lru, gcs.sids)
            /\ \A n \in 1..Len(gcs.sids) : gcs.sids[n] \notin lruKeys(lru')
       /\ (gcs.pc = "expire" /\ gcs.i <= Len(gcs.sids)
             /\ gcs.sids[gcs.i] \in DOMAIN sessions /\ gcs' # gcs) =>
            /\ sessions' = mapDelete(sessions, gcs.sids[gcs.i])
            /\ gcs' = [gcs EXCEPT !.i = gcs.i + 1]
            /\ th' = th /\ lru' = lru
            /\ crashed' = crashed
       /\ (gcs.pc = "expire" /\ gcs'.pc = "release") =>
            gcs.i > Len(gcs.sids)]_vars

\* a sweep found two expired ids; the handle Expire of the first failed
\* (its store is still there), the id is gone from the live map and the
\* LRU index, and the sweep is about to visit the second
C14_Witness ==
    /\ gcs.pc = "expire" /\ gcs.i = 2 /\ Len(gcs.sids) = 2
    /\ gcs.sids[1] \in DOMAIN data
    /\ inNeither(gcs.sids[1])
    /\ gcs.sids[2] \in DOMAIN sessions

\* C18. Configuration errors abort at once.  Register on a name that is
\* registered panics and leaves the registry as it is, so the first factory
\* stays bound; a Register that succeeds binds one new name and rebinds
\* none.  NewSession on a name that is not registered panics: no manager is
\* returned, nothing is recovered and no gc is started.  After a panic
\* nothing happens any more.
C18_ConfigErrors ==
    /\ [](boot.pc = "panicked" =>
            (crashed /\ gcs.pc = "none" /\ sessions = <<>> /\ lru = <<>>))
    /\ [][/\ (boot.pc = "start" /\ boot' # boot /\ boot'.op = "Register") =>
               IF boot'.name \in DOMAIN boot.registry
               THEN /\ boot'.pc = "panicked"
                    /\ boot'.registry = boot.registry
               ELSE /\ boot'.pc = "start"
                    /\ DOMAIN boot'.registry =
                          DOMAIN boot.registry \cup {boot'.name}
                    /\ boot'.registry[boot'.name] = boot'.f
                    /\ \A n \in DOMAIN boot.registry :
                          boot'.registry[n] = boot.registry[n]
          /\ (boot.pc = "start" /\ boot' # boot /\ boot'.op = "NewSession") =>
               /\ boot'.registry = boot.registry
               /\ IF boot'.name \in DOMAIN boot.registry
                  THEN boot'.pc = "recover"
                  ELSE boot'.pc = "panicked"
               /\ gcs' = gcs /\ sessions' = sessions /\ lru' = lru
          /\ boot.pc = "panicked" => vars' = vars
          /\ boot.pc # "start" => boot'.registry = boot.registry]_vars

\* the second Register of a name, with the other factory, has panicked and
\* the name is still bound to the first factory
C18_Witness ==
    /\ boot.pc = "panicked" /\ boot.op = "Register"
    /\ boot.name \in DOMAIN boot.registry
    /\ boot.registry[boot.name] # boot.f

\* C19. Startup recovery: when NewSession returns, the live map and the LRU
\* index hold exactly the ids the store's Init reported, each id bound to
\* its own handle and each LRU entry carrying the time Init reported; and
\* a sweep finds exactly the ids whose LRU time is older than the lifetime
\* at its tick and has removed them from both structures when it gives the
\* lock back, so a recovered session that old is removed by the first
\* sweep.
C19_StartupRecovery ==
    [][/\ (boot.pc = "recover" /\ boot'.pc = "running") =>
            /\ DOMAIN sessions' = initIds(boot)
            /\ lruKeys(lru') = initIds(boot)
            /\ Len(lru') = Cardinality(initIds(boot))
            /\ \A sid \in initIds(boot) :
                 /\ sessions'[sid] = newHandle(sid)
                 /\ lruVal(lru', sid) = boot.disk[sid]
            /\ gcs'.pc = "select"
       /\ (gcs.pc = "find" /\ gcs'.pc = "remove") =>
            {gcs'.sids[n] : n \in 1..Len(gcs'.sids)} =
               {sid \in lruKeys(lru) : gcs.t - lruVal(lru, sid) > sessionLifeTime}
       /\ (gcs.pc = "expire" /\ gcs'.pc = "release") =>
            \A n \in 1..Len(gcs.sids) :
               /\ gcs.sids[n] \notin DOMAIN sessions'
               /\ gcs.sids[n] \notin lruKeys(lru')]_vars

\* NewSession recovered two sessions from the file store; the sweep has
\* removed the one whose time was older than the lifetime (its store is
\* still on disk, the handle Expire having failed) and has left the other
C19_Witness ==
    /\ boot.pc = "running" /\ boot.f = "newFileStore"
    /\ gcs.pc = "select"
    /\ \E x, y \in Ids :
         /\ x # y
         /\ x \in DOMAIN sessions /\ x \in lruKeys(lru)
         /\ lruVal(lru, x) = InitNow
         /\ y \in DOMAIN data /\ inNeither(y)

\* C15. Backend errors pass through.  Within one Set, Delete or Update the
\* error changes only in the one step that calls the handle, the call never
\* comes back to that step, and every later step up to the return keeps the
\* error and the id.  A handle that fails leaves the stores as they are.
\* When Set mints and the handle's Set fails, the new id is in the live map
\* with its handle all the same, Set's put enters it in the LRU index, and
\* Set returns the new id with the error.
handleSteps == {"read", "insert", "delete", "update"}

afterHandle == {"put", "release"}

C15_ErrorsPassThrough ==
    [][\A t \in Callers :
         th[t].op \in {"Set", "Delete", "Update"} =>
           /\ (th'[t].op = th[t].op /\ th[t].pc # "idle"
                 /\ th'[t].err # th[t].err) =>
                /\ th[t].pc \in handleSteps
                /\ th'[t].pc \in afterHandle
           /\ (th[t].pc \in handleSteps /\ th'[t].pc \in afterHandle
                 /\ th'[t].err # NoErr) => data' \in {data, mkdir(data, th'[t].sid)}
           /\ th[t].pc \in afterHandle =>
                /\ th'[t].pc \in afterHandle \cup {"idle"}
                /\ th'[t].err = th[t].err
                /\ th'[t].sid = th[t].sid
                /\ th'[t].op = th[t].op
           /\ inserts(t) =>
                /\ th[t].sid # EMPTY_STRING
                /\ th[t].sid \in DOMAIN sessions'
                /\ sessions'[th[t].sid] = newHandle(th[t].sid)
           /\ (th[t].pc = "put" /\ th'[t].pc = "release") =>
                /\ th[t].sid \in lruKeys(lru')
                /\ sessions' = sessions]_vars

\* a Set that minted a session has returned the new id with the handle's
\* error; the id is in the live map and in the LRU index, its store is empty
C15_Witness ==
    \E t \in Callers :
        /\ th[t].pc = "idle" /\ th[t].op = "Set" /\ ~th[t].cont
        /\ th[t].err = IOErr
        /\ th[t].sid # EMPTY_STRING
        /\ th[t].sid \in DOMAIN sessions
        /\ th[t].sid \in lruKeys(lru)
        /\ th[t].sid \in DOMAIN data /\ data[th[t].sid] = NoData

\* C16. When Close has returned the gc goroutine has left its loop: it is
\* not inside a sweep and does not hold the lock; from then on it stays
\* out of the loop, so no step of the program is a step of a sweep.
C16_SweepHalted ==
    /\ [](cl.pc = "returned" => (gcs.pc = "exited" /\ writer # "gc"))
    /\ [][cl.pc = "returned" => (gcs' = gcs /\ cl' = cl)]_vars

\* Close has returned and the clock has gone on: a session whose time is
\* older than the lifetime is still in the live map and the LRU index
C16_Witness ==
    /\ cl.pc = "returned" /\ gcs.pc = "exited"
    /\ \E sid \in DOMAIN sessions :
         /\ sid \in lruKeys(lru)
         /\ now - lruVal(lru, sid) > sessionLifeTime

\* C17. A failed fill of the id buffer ends the operation: the Set whose
\* randSId came back empty does not go on to mint, and an id that Set
\* inserts is never the empty string.
C17_RandFailureFatal ==
    [][\A t \in Callers :
         /\ th[t].pc = "retry" => th'[t].pc # "insert"
         /\ inserts(t) => th[t].sid \in Ids \ {EMPTY_STRING}]_vars

\* C20. While a sweep or a Flush holds the exclusive lock, the live map and
\* the LRU index are changed by no one else: under a sweep every step that
\* changes either is a step of gc, and under a Flush every step that
\* changes either is that Flush's own removal, not a step of another
\* operation or of gc.
C20_ExclusiveSweepFlush ==
    [][/\ writer = "gc" =>
            (gcs' = gcs => <<sessions, lru>>' = <<sessions, lru>>)
       /\ \A t \in Callers :
            (writer = t /\ th[t].op = "Flush") =>
              (<<sessions, lru>>' # <<sessions, lru>> =>
                 /\ gcs' = gcs
                 /\ \A u \in Callers \ {t} : th'[u] = th[u])]_vars

\* the callers and the sweep that have sent on closeChan and have not yet
\* received from it
admitted ==
    Cardinality({t \in Callers : th[t].pc \notin {"idle", "admit"}})
      + (IF gcs.pc \in {"find", "remove", "expire", "release"} THEN 1 ELSE 0)

\* C21. In every reachable state the in-flight counter, len(closeChan), is
\* the number of Set, Delete, Update, Expire and Flush calls and sweeps that
\* were admitted and have not yet exited; it is never negative, and it is
\* zero when no operation is in flight.
C21_InFlightCounter ==
    /\ closeChan = admitted
    /\ closeChan >= 0
    /\ ((\A t \in Callers : th[t].pc = "idle") /\ gcs.pc \in {"select", "exited"})
         => closeChan = 0

\* an operation that was admitted, ran and left again while a sweep is
\* still inside do(): the counter went up to two and is back at one
C21_Witness ==
    /\ closeChan = 1
    /\ gcs.pc \in {"find", "remove", "expire", "release"}
    /\ \E t \in Callers : /\ th[t].pc = "idle" /\ th[t].op \in DoOps
                          /\ th[t].sid # EMPTY_STRING

\* C22. In every reachable state the last-touch times of the LRU index,
\* read from front to back, are non-decreasing, the index filled from
\* Init() at the start included.
C22_LruOrder ==
    \A i, j \in 1..Len(lru) : i < j => lru[i].val <= lru[j].val

\* the step is a call of op on the index
lruStep(op) == th'.op = op /\ <<th, lru>>' # <<th, lru>>

\* the elements of a list in their order, without those of the keys ks
others(l, ks) == SelectSeq(l, LAMBDA e : e.key \notin ks)

\* C23. put(k, v) with k absent appends k at the back and makes the index
\* one longer; with k present it overwrites k's value, moves k to the back,
\* keeps the length and keeps the order and the values of all other keys;
\* after every put each key stands once in the list and the cache holds
\* the list's keys.  Hence put(a,t1), put(b,t2), put(a,t3) on a new index
\* leave exactly b then a, a with the value t3.
C23_Put ==
    /\ [](\A t1, t2, t3 \in 0..MaxTime :
            lruPut(lruPut(lruPut(newLRU, "a", t1), "b", t2), "a", t3)
              = [l |-> <<element("b", t2), element("a", t3)>>,
                 cache |-> {"a", "b"}])
    /\ [][lruStep("put") =>
            LET k == th'.ks[1]
                v == th'.val
            IN  /\ k \notin lruKeys(lru.l) =>
                     /\ lru'.l = Append(lru.l, element(k, v))
                     /\ length(lru'.l) = length(lru.l) + 1
                /\ k \in lruKeys(lru.l) =>
                     /\ length(lru'.l) = length(lru.l)
                     /\ lru'.l[Len(lru'.l)] = element(k, v)
                     /\ others(lru'.l, {k}) = others(lru.l, {k})
                /\ wellFormed(lru')]_vars

\* Test_LRU has put sessionid3 a second time: the index still holds nine
\* keys, sessionid3 stands at the back with a fresh time and sessionid1,
\* still old, at the front
C23_Witness ==
    /\ th.pc = 11 /\ th.op = "put" /\ th.ks = <<"sessionid3">>
    /\ length(lru.l) = 9
    /\ lru.l[9].key = "sessionid3" /\ lru.l[9].val = th.val
    /\ th.val >= testAge
    /\ lru.l[1].key = "sessionid1" /\ lru.l[1].val < th.val

\* the keys given to a call
given(ks) == {ks[i] : i \in 1..Len(ks)}

\* C24. remove(k1..kn) deletes every given key that is present from the
\* list and from the cache, ignores absent keys, makes the index shorter by
\* the number of distinct present keys and leaves the other elements with
\* their values in their order; a key that is not in the index is not
\* returned by findExpiredItems, and comes back into the index only by a
\* put of that key.
C24_Remove ==
    [][/\ lruStep("remove") =>
            LET ks == given(th'.ks) IN
            /\ lru'.cache = lru.cache \ ks
            /\ lruKeys(lru'.l) = lruKeys(lru.l) \ ks
            /\ length(lru'.l) =
                 length(lru.l) - Cardinality(ks \cap lruKeys(lru.l))
            /\ lru'.l = others(lru.l, ks)
            /\ wellFormed(lru')
       /\ lruStep("findExpiredItems") =>
            given(th'.ret) \subseteq (lruKeys(lru.l) \cap lru.cache)
       /\ \A k \in lruKeys(lru'.l) \cup lru'.cache :
            (k \notin lruKeys(lru.l) \/ k \notin lru.cache) =>
               (lruStep("put") /\ th'.ks = <<k>>)]_vars

\* Test_LRU has removed the two keys findExpiredItems gave it: both have
\* left the list and the cache, and the seven other keys are still there
C24_Witness ==
    /\ th.pc = Len(testPuts) + 3 /\ th.op = "remove"
    /\ Len(th.ks) = 2 /\ th.ks[1] # th.ks[2]
    /\ given(th.ks) \cap (lruKeys(lru.l) \cup lru.cache) = {}
    /\ length(lru.l) = 7
    /\ lru.cache = lruKeys(lru.l)

\* the keys of the elements of l whose value satisfies p, in l's order
matching(l, p) ==
    LET r == SelectSeq(l, LAMBDA e : p[e.val])
    IN  [i \in 1..Len(r) |-> r[i].key]

\* C25. findExpiredItems(p) returns the keys of exactly the elements whose
\* value satisfies p, in the order of the list, whatever stands before
\* them, and leaves the index as it is.  In Test_LRU, where five ids are put
\* as old, four as fresh and three of the old ones are put again as fresh:
\* when the two ids that were not put again are old at the scan, the scan
\* returns exactly those two, and after their removal the length is 7.
C25_FindExpired ==
    /\ [][lruStep("findExpiredItems") =>
            /\ th'.ret = matching(lru.l, th'.p)
            /\ lru' = lru]_vars
    /\ []((th.pc = Len(testPuts) + 2
             /\ th.p[lruVal(lru.l, testIds[2])]
             /\ th.p[lruVal(lru.l, testIds[5])])
            => th.ret = <<testIds[2], testIds[5]>>)
    /\ []((th.pc = Len(testPuts) + 3 /\ Len(th.ks) = 2) => length(lru.l) = 7)

\* Test_LRU after its scan: nine elements, the two untouched old ids at the
\* front were returned, the fresh ones behind them were evaluated and left
C25_Witness ==
    /\ th.pc = Len(testPuts) + 2 /\ th.op = "findExpiredItems"
    /\ th.ret = <<"sessionid2", "sessionid5">>
    /\ length(lru.l) = 9
    /\ lru.l[1].key = "sessionid2" /\ lru.l[2].key = "sessionid5"
    /\ \A i \in 3..9 : ~th.p[lru.l[i].val]
    /\ {lru.l[i].key : i \in 7..9} = {"sessionid3", "sessionid1", "sessionid4"}

\* C26. Whenever the sweep is about to call Expire on the handle of an id
\* it got from findExpiredItems, that id has a handle in the live map: the
\* gc goroutine never panics on a missing handle.
C26_SweepHandlePresent ==
    /\ (gcs.pc = "expire" /\ gcs.i <= Len(gcs.sids))
          => gcs.sids[gcs.i] \in DOMAIN sessions
    /\ ~crashed

\* C27. A Set that found its id live and returns (id, nil) while no Close
\* has been issued leaves the session live when it returns: the id is in
\* the map and in the LRU index and a Get of the key gives the value that
\* was set, whatever a sweep did meanwhile.
C27_SetSurvivesSweep ==
    [][\A t \in Callers :
         (/\ th[t].op = "Set" /\ th[t].cont /\ th[t].err = NoErr
          /\ th[t].pc = "release" /\ th'[t].pc = "idle"
          /\ cl.pc = "idle")
         => /\ th[t].sid = th[t].arg
            /\ th[t].sid \in DOMAIN sessions'
            /\ th[t].sid \in lruKeys(lru')
            /\ storeGet(data', th[t].sid, th[t].key) = th[t].val]_vars

\* the step is the scan of a sweep, and the step after it
scans == gcs.pc = "find" /\ gcs'.pc = "remove"

\* C29. A sweep removes only expired sessions.  The scan of the sweep of
\* tick time t takes no id whose touch time v has t - v <= lifetime; the
\* sweep's remove takes out of the LRU index only ids of the scan and
\* leaves the other elements with their times in their order; each round
\* of its loop calls Expire on the handle of one id of the scan and takes
\* only that id out of the map and the store; no other step of the sweep
\* changes map, LRU index or store.
C29_SweepOnlyExpired ==
    [][/\ scans =>
            /\ \A i \in 1..Len(lru) :
                 gcs.t - lru[i].val <= sessionLifeTime
                   => lru[i].key \notin given(gcs'.sids)
            /\ given(gcs'.sids) \subseteq lruKeys(lru)
            /\ <<sessions, lru, data>>' = <<sessions, lru, data>>
       /\ (gcs' # gcs /\ ~scans) =>
            /\ lru' = IF gcs.pc = "remove" THEN others(lru, given(gcs.sids))
                      ELSE lru
            /\ \A sid \in DOMAIN sessions \ DOMAIN sessions' :
                 gcs.pc = "expire" /\ sid = gcs.sids[gcs.i]
            /\ \A sid \in DOMAIN sessions' :
                 sid \in DOMAIN sessions /\ sessions'[sid] = sessions[sid]
            /\ \A sid \in DOMAIN data :
                 (sid \notin DOMAIN data' \/ data'[sid] # data[sid])
                   => (/\ gcs.pc = "expire" /\ sid = gcs.sids[gcs.i]
                       /\ sid \notin DOMAIN data')
            /\ DOMAIN data' \subseteq DOMAIN data]_vars

\* a sweep is in its loop and has dealt with the one id of its scan: that
\* session, whose age was above the lifetime, is gone, and the session
\* whose age equals the lifetime is in the map, the LRU index and the store
C29_Witness ==
    /\ gcs.pc = "expire" /\ gcs.i = 2 /\ Len(gcs.sids) = 1
    /\ inNeither(gcs.sids[1]) /\ gcs.sids[1] \notin DOMAIN data
    /\ \E x \in Ids \ {gcs.sids[1]} :
         /\ x \in DOMAIN sessions /\ x \in lruKeys(lru) /\ x \in DOMAIN data
         /\ now - lruVal(lru, x) = sessionLifeTime
    /\ \A t \in Callers : th[t].pc = "idle"

\* C28. Every invocation of Close returns in the end, an invocation on a
\* manager that is closed already included, when every admitted operation
\* finishes and the sweep goroutine gets its turns.
C28_CloseTerminates == (cl.pc \in {"poll", "signal"}) ~> (cl.pc = "returned")

====
